---------------------------- MODULE Spec2Model ----------------------------
(***************************************************************************)
(* A model of alanzhou93/substorm-detection:                               *)
(*   src/utils.py                  split_data, rnn_format_x,               *)
(*                                 linear_format_x, rnn_format_y           *)
(*   src/data/supermag_download.py date_range, getDataForStation,          *)
(*                                 getAvailableStations,                   *)
(*                                 getDataForInterval, downloadDataToFile, *)
(*                                 downloadData                            *)
(* The code is read as Python 3 (true division, print functions, an        *)
(* `except ... as e` name that is unbound once its clause is left).        *)
(* Python sequences are 0-based; the sequences here are 1-based, so the    *)
(* row with Python index r is element r+1.                                 *)
(***************************************************************************)
EXTENDS Integers, Sequences, FiniteSets, TLC

VARIABLES
    \* ---- utils.split_data
    list_of_data,   \* argument: a list of arrays with the same number of rows
    split,          \* argument: the fraction split / SplitDen
    random,         \* argument: the shuffle flag
    batch_size,     \* argument: 0 stands for None (both are falsy)
    idx,            \* local: the index array, after the optional shuffle
    pre_a, pre_b,   \* locals split_a, split_b as they stand at line 29
    split_a, split_b, \* the returned lists
    split_pc,       \* "call" before the call, "returned" after it
    \* ---- utils.rnn_format_x / utils.linear_format_x
    list_of_x,      \* argument: a list of 4-dimensional arrays
    x_out,          \* the returned list
    fmt_pc,         \* "call", then "rnn" or "linear": the function that ran
    \* ---- supermag_download.date_range (a generator)
    dr_start, dr_end, dr_intv,  \* arguments start, end, intv
    dr_i,           \* the loop variable i
    dr_yielded,     \* the values yielded so far, in order
    dr_pc,          \* "loop": in the for loop, "end": at `yield end`, "done"
    \* ---- utils.rnn_format_y
    list_of_y,      \* argument: a list of label arrays
    y_classes,      \* label_encoder.classes_ after the fit for each element
    y_rnn,          \* the returned list of one-hot arrays
    y_pc,           \* "call", "returned"
    \* ---- supermag_download.downloadData and what it calls
    yr,             \* downloadData: the loop variable
    intv_i,         \* downloadDataToFile: the loop variable i
    dataset,        \* downloadDataToFile: the year's dataset, by station
    merged,         \* the start dates of the intervals merged into dataset
    data,           \* getDataForInterval: the interval's dataset, by station
    station_list,   \* getDataForInterval: "unset", "None" or the list
    st_pos,         \* getDataForInterval: the place in station_list (1-based)
    tries,          \* the running remote call's local tries
    requests,       \* the requests.get calls the running remote call made
    ret,            \* how the last remote call ended, until the next starts
    last_rq,        \* the last HTTP request sent
    files,          \* the names of the files written, in order
    failed,         \* some request failed or some response was unusable
    exc,            \* the exception that ended the run, or "none"
    dl_pc           \* the place in the program

splitVars == <<list_of_data, split, random, batch_size, idx, pre_a, pre_b,
               split_a, split_b, split_pc>>

fmtVars == <<list_of_x, x_out, fmt_pc>>
dateVars == <<dr_start, dr_end, dr_intv, dr_i, dr_yielded, dr_pc>>
encVars == <<list_of_y, y_classes, y_rnn, y_pc>>

dlVars == <<yr, intv_i, dataset, merged, data, station_list, st_pos, tries,
            requests, ret, last_rq, files, failed, exc, dl_pc>>

vars == <<splitVars, fmtVars, dateVars, encVars, dlVars>>

-----------------------------------------------------------------------------
(* Bounds of the inputs.                                                   *)
MaxRows == 4
MaxArrays == 2
MaxBatch == 3
SplitBits == 2

\* split fractions are k / 2^SplitBits: dyadic, so that the float product
\* (1 - split) * n of line 17 is exact and int() is the floor computed here
SplitDen == 2 ^ SplitBits

Min(a, b) == IF a < b THEN a ELSE b
Max(a, b) == IF a > b THEN a ELSE b

-----------------------------------------------------------------------------
(* Python / numpy primitives used by split_data                            *)

\* np.arange(n)
arange(n) == [j \in 1..n |-> j - 1]

\* s[:stop] for any integer stop: a negative stop counts from the end, and
\* -0 is 0, so s[:-0] is s[:0], the empty array
PySliceTo(s, stop) ==
    LET k == IF stop < 0 THEN Max(Len(s) + stop, 0) ELSE Min(stop, Len(s))
    IN  SubSeq(s, 1, k)

\* s[start:] for start >= 0
PySliceFrom(s, start) == SubSeq(s, Min(start, Len(s)) + 1, Len(s))

\* arr[ix]: numpy integer-array indexing
Take(arr, ix) == [j \in 1..Len(ix) |-> arr[ix[j] + 1]]

\* the orders np.random.shuffle can leave np.arange(n) in
ShuffleOrders(n) ==
    {p \in [1..n -> 0..(n - 1)] : \A a, b \in 1..n : a # b => p[a] # p[b]}

\* list_of_data[0].shape[0]
NRows(lod) == Len(lod[1])

\* line 17: int((1 - split) * list_of_data[0].shape[0])
SplitIdx(sp, n) == ((SplitDen - sp) * n) \div SplitDen

\* lines 19-21: idx after the optional in-place shuffle
Shuffled(n, rnd) == IF rnd THEN ShuffleOrders(n) ELSE {arange(n)}

\* line 27: data[idx[:split_idx]] for every array
KeepOf(lod, ix, k) == [a \in 1..Len(lod) |-> Take(lod[a], PySliceTo(ix, k))]

\* data[idx[split_idx + 1:]]: a held-out group that starts one row late
HeldOutOf_skips(lod, ix, k) ==
    [a \in 1..Len(lod) |-> Take(lod[a], PySliceFrom(ix, k + 1))]

\* line 28: data[idx[split_idx:]] for every array
HeldOutOf(lod, ix, k) == [a \in 1..Len(lod) |-> Take(lod[a], PySliceFrom(ix, k))]

\* lines 30-40: the remainders come from the first array (i == 0) and every
\* array is cut with [:-remainder]
Trimmed(grp, bs) ==
    IF bs = 0 THEN grp
    ELSE LET remainder == Len(grp[1]) % bs
         IN  [a \in 1..Len(grp) |-> PySliceTo(grp[a], -remainder)]

-----------------------------------------------------------------------------
(* split_data                                                              *)

\* row r of array a carries its own identity, so that a row can be followed
Rows(a, n) == [j \in 1..n |-> <<a, j - 1>>]

SplitStart ==
    /\ \E n \in 0..MaxRows, m \in 1..MaxArrays :
           list_of_data = [a \in 1..m |-> Rows(a, n)]
    /\ split \in 0..SplitDen
    /\ random \in BOOLEAN
    /\ batch_size \in 0..MaxBatch
    /\ idx = <<>>
    /\ pre_a = <<>> /\ pre_b = <<>>
    /\ split_a = <<>> /\ split_b = <<>>
    /\ split_pc = "call"

split_data ==
    /\ split_pc = "call"
    /\ \E p \in Shuffled(NRows(list_of_data), random) :
         LET split_idx == SplitIdx(split, NRows(list_of_data))
             a == KeepOf(list_of_data, p, split_idx)
             b == HeldOutOf(list_of_data, p, split_idx)
         IN  /\ idx' = p
             /\ pre_a' = a
             /\ pre_b' = b
             /\ split_a' = Trimmed(a, batch_size)
             /\ split_b' = Trimmed(b, batch_size)
    /\ split_pc' = "returned"
    /\ UNCHANGED <<list_of_data, split, random, batch_size>>
    /\ UNCHANGED <<fmtVars, dateVars, encVars, dlVars>>

\* a part of the program that is not running in the specification at hand
SplitIdle ==
    /\ list_of_data = <<>> /\ split = 0 /\ random = FALSE /\ batch_size = 0
    /\ idx = <<>> /\ pre_a = <<>> /\ pre_b = <<>>
    /\ split_a = <<>> /\ split_b = <<>> /\ split_pc = "idle"

-----------------------------------------------------------------------------
(* numpy arrays and np.reshape                                             *)
(* An array is its shape and its elements by 0-based index tuple.          *)

MaxDim == 3
MaxList == 2

RECURSIVE Prod(_, _)
\* shape[d] * ... * shape[Len(shape)]
Prod(shape, d) == IF d > Len(shape) THEN 1 ELSE shape[d] * Prod(shape, d + 1)

Size(shape) == Prod(shape, 1)

RECURSIVE Ravel(_, _, _)
\* the C-order (row-major) offset of index tuple ix, summed from axis d on
Ravel(ix, shape, d) ==
    IF d > Len(shape) THEN 0
    ELSE ix[d] * Prod(shape, d + 1) + Ravel(ix, shape, d + 1)

\* the index tuple at C-order offset k
Unravel(k, shape) ==
    [d \in 1..Len(shape) |-> (k \div Prod(shape, d + 1)) % shape[d]]

Indices(shape) == {Unravel(k, shape) : k \in 0..(Size(shape) - 1)}

\* np.reshape(A, newshape): the elements keep their C-order offsets
Reshape(A, newshape) ==
    [shape |-> newshape,
     at    |-> [ix \in Indices(newshape) |->
                   A.at[Unravel(Ravel(ix, newshape, 1), A.shape)]]]

\* np.transpose(x, (0, 2, 1, 3)).reshape(a0, a2, a1*a3): the same shape as
\* rnn_format_x gives, with the axes moved instead of the buffer re-cut
rnn_format_x_moves_axis(lx) ==
    [i \in 1..Len(lx) |->
        LET a1 == lx[i].shape[2]
            a2 == lx[i].shape[3]
            a3 == lx[i].shape[4]
            new == <<lx[i].shape[1], a2, a1 * a3>>
        IN  [shape |-> new,
             at    |-> [ix \in Indices(new) |->
                  lx[i].at[<<ix[1], ix[3] \div a3, ix[2], ix[3] % a3>>]]]]

\* lines 85-89
rnn_format_x(lx) ==
    [i \in 1..Len(lx) |->
        LET a0 == lx[i].shape[1]
            a1 == lx[i].shape[2]
            a2 == lx[i].shape[3]
            a3 == lx[i].shape[4]
        IN  Reshape(lx[i], <<a0, a2, a1 * a3>>)]

\* lines 168-172
linear_format_x(lx) ==
    [i \in 1..Len(lx) |->
        LET a0 == lx[i].shape[1]
            a1 == lx[i].shape[2]
            a2 == lx[i].shape[3]
            a3 == lx[i].shape[4]
        IN  Reshape(lx[i], <<a0, a1 * a2 * a3>>)]

\* an input array: every element distinct, tagged with the array's place in
\* the list and its own offset
InputArray(shape, tag) ==
    [shape |-> shape,
     at    |-> [ix \in Indices(shape) |-> <<tag, Ravel(ix, shape, 1)>>]]

\* shape sh rotated left by k axes: the list's arrays differ in shape
Rotated(sh, k) == [d \in 1..Len(sh) |-> sh[((d - 1 + k) % Len(sh)) + 1]]

FmtStart ==
    /\ \E sh \in [1..4 -> 1..MaxDim], n \in 1..MaxList :
           list_of_x = [j \in 1..n |-> InputArray(Rotated(sh, j - 1), j)]
    /\ x_out = <<>>
    /\ fmt_pc = "call"

call_rnn_format_x ==
    /\ fmt_pc = "call"
    /\ x_out' = rnn_format_x(list_of_x)
    /\ fmt_pc' = "rnn"
    /\ UNCHANGED list_of_x
    /\ UNCHANGED <<splitVars, dateVars, encVars, dlVars>>

call_linear_format_x ==
    /\ fmt_pc = "call"
    /\ x_out' = linear_format_x(list_of_x)
    /\ fmt_pc' = "linear"
    /\ UNCHANGED list_of_x
    /\ UNCHANGED <<splitVars, dateVars, encVars, dlVars>>

FmtIdle == list_of_x = <<>> /\ x_out = <<>> /\ fmt_pc = "idle"

-----------------------------------------------------------------------------
(* date_range.  Timestamps and durations are whole numbers of ticks, the   *)
(* resolution of datetime (a microsecond).                                 *)

MaxStart == 1
MaxSpan == 7
MaxIntv == 5

\* timedelta / int (Python 3): the quotient rounded to a whole tick, ties
\* to the even one
TimedeltaDiv(d, n) ==
    LET q == d \div n
        r == 2 * (d % n)
    IN  IF r > n \/ (r = n /\ q % 2 = 1) THEN q + 1 ELSE q

\* line 54
Diff(start, end, intv) == TimedeltaDiv(end - start, intv)

\* start + diff * (i + 1): a loop that counts from 1
LoopYield_next(start, end, intv, i) == start + Diff(start, end, intv) * (i + 1)

\* line 56: the value yielded in loop round i
LoopYield(start, end, intv, i) == start + Diff(start, end, intv) * i

DateStart ==
    /\ dr_start \in 0..MaxStart
    /\ \E span \in 0..MaxSpan : dr_end = dr_start + span
    /\ dr_intv \in 1..MaxIntv
    /\ dr_i = 0
    /\ dr_yielded = <<>>
    /\ dr_pc = "loop"

\* lines 55-56: one round of `for i in range(intv)`
date_range_yield ==
    /\ dr_pc = "loop"
    /\ dr_i < dr_intv
    /\ dr_yielded' = Append(dr_yielded, LoopYield(dr_start, dr_end, dr_intv, dr_i))
    /\ dr_i' = dr_i + 1
    /\ dr_pc' = IF dr_i + 1 < dr_intv THEN "loop" ELSE "end"
    /\ UNCHANGED <<dr_start, dr_end, dr_intv>>
    /\ UNCHANGED <<splitVars, fmtVars, encVars, dlVars>>

\* line 57: `yield end`, after which the generator is exhausted
date_range_yield_end ==
    /\ dr_pc = "end"
    /\ dr_yielded' = Append(dr_yielded, dr_end)
    /\ dr_pc' = "done"
    /\ UNCHANGED <<dr_start, dr_end, dr_intv, dr_i>>
    /\ UNCHANGED <<splitVars, fmtVars, encVars, dlVars>>

DateIdle ==
    /\ dr_start = 0 /\ dr_end = 0 /\ dr_intv = 1 /\ dr_i = 0
    /\ dr_yielded = <<>> /\ dr_pc = "idle"

-----------------------------------------------------------------------------
(* rnn_format_y: sklearn's LabelEncoder and OneHotEncoder                  *)

MaxLabel == 1
MaxLabels == 3
MaxSplits == 2

Range(s) == {s[j] : j \in DOMAIN s}

\* the number of elements of S below v: the place of v in sorted(S), 0-based
RankIn(S, v) == Cardinality({u \in S : u < v})

\* LabelEncoder.fit: classes_ is the sorted set of the labels seen
LabelClasses(y) == [k \in 1..Cardinality(Range(y)) |->
                       CHOOSE v \in Range(y) : RankIn(Range(y), v) = k - 1]

\* LabelEncoder.fit_transform: each label's place in classes_
LabelEncode(y) == [j \in DOMAIN y |-> RankIn(Range(y), y[j])]

\* OneHotEncoder(sparse=False).fit_transform on a column of integers: one
\* column per distinct value seen, in sorted order
OneHotEncode(codes) ==
    [j \in DOMAIN codes |->
        [c \in 1..Cardinality(Range(codes)) |->
            IF RankIn(Range(codes), codes[j]) = c - 1 THEN 1 ELSE 0]]

\* lines 152-159: both encoders are fitted anew on every list element
rnn_format_y(ly) == [i \in 1..Len(ly) |-> OneHotEncode(LabelEncode(ly[i]))]

LabelArrays == UNION {[1..n -> 0..MaxLabel] : n \in 1..MaxLabels}

EncStart ==
    /\ \E n \in 1..MaxSplits : list_of_y \in [1..n -> LabelArrays]
    /\ y_classes = <<>>
    /\ y_rnn = <<>>
    /\ y_pc = "call"

call_rnn_format_y ==
    /\ y_pc = "call"
    /\ y_classes' = [i \in 1..Len(list_of_y) |-> LabelClasses(list_of_y[i])]
    /\ y_rnn' = rnn_format_y(list_of_y)
    /\ y_pc' = "returned"
    /\ UNCHANGED list_of_y
    /\ UNCHANGED <<splitVars, fmtVars, dateVars, dlVars>>

EncIdle == list_of_y = <<>> /\ y_classes = <<>> /\ y_rnn = <<>> /\ y_pc = "idle"

-----------------------------------------------------------------------------
(* supermag_download: the constants of lines 27-31                         *)

N_INTERVALS == 10
START_YEAR == 2015
END_YEAR == 2019
MAX_TRIES == 5

\* the station identifiers the inventory service may name, and the station
\* lists it may answer with (any order, no identifier twice)
Stations == {"AAA", "BBB"}

StationLists ==
    {s \in UNION {[1..n -> Stations] : n \in 0..Cardinality(Stations)} :
        \A a, b \in DOMAIN s : a # b => s[a] # s[b]}

\* In this part a tick is a minute: every date and duration the download
\* computes is a whole number of minutes, counted from datetime(START_YEAR, 1, 1).
IsLeap(y) == (y % 4 = 0 /\ y % 100 # 0) \/ y % 400 = 0

DaysIn(y) == IF IsLeap(y) THEN 366 ELSE 365

RECURSIVE YearStart(_)
\* datetime(y, 1, 1, 0, 0, 0)
YearStart(y) ==
    IF y <= START_YEAR THEN 0
    ELSE YearStart(y - 1) + DaysIn(y - 1) * 24 * 60

\* line 131: list(date_range(start_date, end_date, nintervals))
DateList(start, end, intv) ==
    [k \in 1..(intv + 1) |->
        IF k <= intv THEN LoopYield(start, end, intv, k - 1) ELSE end]

\* the list `dates` of downloadDataToFile for year y (lines 147-148, 131)
Dates(y) == DateList(YearStart(y), YearStart(y + 1), N_INTERVALS)

\* lines 134-136: hours and minutes of dates[i+1] - dates[i]
Hours(y, i) == (Dates(y)[i + 2] - Dates(y)[i + 1]) \div 60
Minutes(y, i) == (Dates(y)[i + 2] - Dates(y)[i + 1]) - 60 * Hours(y, i)

\* line 149: "mag_data_{}".format(yr)
FileName(y) == <<"mag_data_", y>>

\* line 146: range(START_YEAR, END_YEAR) is exhausted
YearsDone(y) == y >= END_YEAR

\* range(nintervals - 1): a loop that stops one interval short
IntervalsDone_early(i, n) == i >= n - 1

\* line 132: range(nintervals) is exhausted
IntervalsDone(i, n) == i >= n

\* lines 62, 81: the guard of `while tries < MAX_TRIES`
MayTry(t) == t < MAX_TRIES

\* xr.Dataset(): no variables
EmptyDataset == << >>

\* line 123: data[station] = df
SetItem(ds, station, df) ==
    [s \in DOMAIN ds \cup {station} |-> IF s = station THEN df ELSE ds[s]]

\* line 138: xr.merge([dataset, data]), reduced to the kind of entry each
\* station identifier holds (the time indexes are left out): the identifiers
\* of both, a table taking precedence over a null entry
Merge(ds, d) ==
    [s \in DOMAIN ds \cup DOMAIN d |->
        IF (s \in DOMAIN ds /\ ds[s] = "table") \/ (s \in DOMAIN d /\ d[s] = "table")
        THEN "table" ELSE "None"]

NoReturn == [fn |-> "none", val |-> "none", tries |-> 0, requests |-> 0,
             response |-> "none", station |-> "none"]

NoRequest == [kind |-> "none", yr |-> 0, intv |-> 0, pos |-> 0,
              station |-> "none", start |-> 0, hours |-> 0, minutes |-> 0]

DownloadStart ==
    /\ yr = START_YEAR
    /\ intv_i = 0
    /\ dataset = EmptyDataset
    /\ merged = <<>>
    /\ data = EmptyDataset
    /\ station_list = "unset"
    /\ st_pos = 0
    /\ tries = 0
    /\ requests = 0
    /\ ret = NoReturn
    /\ last_rq = NoRequest
    /\ files = <<>>
    /\ failed = FALSE
    /\ exc = "none"
    /\ dl_pc = "year_loop"

others == <<splitVars, fmtVars, dateVars, encVars>>

\* lines 146-150: the next year of downloadData; downloadDataToFile starts
\* with an empty dataset (line 129)
downloadData_year ==
    /\ dl_pc = "year_loop"
    /\ ~YearsDone(yr)
    /\ dataset' = EmptyDataset
    /\ merged' = <<>>
    /\ intv_i' = 0
    /\ dl_pc' = "interval_loop"
    /\ UNCHANGED <<yr, data, station_list, st_pos, tries, requests, ret,
                   last_rq, files, failed, exc>>
    /\ UNCHANGED others

\* line 146: the loop over the years ends, and downloadData returns
downloadData_return ==
    /\ dl_pc = "year_loop"
    /\ YearsDone(yr)
    /\ dl_pc' = "done"
    /\ UNCHANGED <<yr, intv_i, dataset, merged, data, station_list, st_pos,
                   tries, requests, ret, last_rq, files, failed, exc>>
    /\ UNCHANGED others

\* lines 132-137, 102-109: the next interval; getDataForInterval starts with
\* an empty dataset and calls getAvailableStations
downloadDataToFile_interval ==
    /\ dl_pc = "interval_loop"
    /\ ~IntervalsDone(intv_i, N_INTERVALS)
    /\ data' = EmptyDataset
    /\ station_list' = "unset"
    /\ st_pos' = 0
    /\ tries' = 0
    /\ requests' = 0
    /\ ret' = NoReturn
    /\ dl_pc' = "stations_rq"
    /\ UNCHANGED <<yr, intv_i, dataset, merged, last_rq, files, failed, exc>>
    /\ UNCHANGED others

\* lines 140-141: after the last interval the year's file is written, and
\* downloadData goes on to the next year
downloadDataToFile_save ==
    /\ dl_pc = "interval_loop"
    /\ IntervalsDone(intv_i, N_INTERVALS)
    /\ files' = Append(files, FileName(yr))
    /\ yr' = yr + 1
    /\ dl_pc' = "year_loop"
    /\ UNCHANGED <<intv_i, dataset, merged, data, station_list, st_pos, tries,
                   requests, ret, last_rq, failed, exc>>
    /\ UNCHANGED others

StationsRequest ==
    [kind |-> "stations", yr |-> yr, intv |-> intv_i, pos |-> 0,
     station |-> "none", start |-> Dates(yr)[intv_i + 1],
     hours |-> Hours(yr, intv_i), minutes |-> Minutes(yr, intv_i)]

\* lines 81-91: requests.get raises.  tries is incremented; when the loop is
\* left with tries == MAX_TRIES, line 90 reads e, which Python 3 unbound at
\* the end of the except clause: UnboundLocalError leaves the function, and
\* nothing up to the top of downloadData catches it.
getAvailableStations_fails ==
    /\ dl_pc = "stations_rq"
    /\ MayTry(tries)
    /\ last_rq' = StationsRequest
    /\ requests' = requests + 1
    /\ tries' = tries + 1
    /\ failed' = TRUE
    /\ IF MayTry(tries + 1)
       THEN UNCHANGED <<ret, exc, dl_pc>>
       ELSE /\ ret' = [fn |-> "getAvailableStations", val |-> "raise",
                       tries |-> tries + 1, requests |-> requests + 1,
                       response |-> "none", station |-> "none"]
            /\ exc' = "UnboundLocalError"
            /\ dl_pc' = "raised"
    /\ UNCHANGED <<yr, intv_i, dataset, merged, data, station_list, st_pos, files>>
    /\ UNCHANGED others

\* lines 83-84, 92-98, 109-113: the request succeeds and its body decodes to
\* a station list, which getDataForInterval starts to walk
getAvailableStations_returns ==
    /\ dl_pc = "stations_rq"
    /\ MayTry(tries)
    /\ last_rq' = StationsRequest
    /\ requests' = requests + 1
    /\ \E l \in StationLists : station_list' = l
    /\ ret' = [fn |-> "getAvailableStations", val |-> "list", tries |-> tries,
               requests |-> requests + 1, response |-> "ok", station |-> "none"]
    /\ st_pos' = 1
    /\ dl_pc' = "station_loop"
    /\ UNCHANGED <<yr, intv_i, dataset, merged, data, tries, files, failed, exc>>
    /\ UNCHANGED others

\* lines 83-84, 92-97, 109-110: the request succeeds but its body does not
\* decode; getAvailableStations returns None and len(None) at line 110 raises
\* TypeError
getAvailableStations_undecodable ==
    /\ dl_pc = "stations_rq"
    /\ MayTry(tries)
    /\ last_rq' = StationsRequest
    /\ requests' = requests + 1
    /\ station_list' = "None"
    /\ ret' = [fn |-> "getAvailableStations", val |-> "None", tries |-> tries,
               requests |-> requests + 1, response |-> "undecodable",
               station |-> "none"]
    /\ failed' = TRUE
    /\ exc' = "TypeError"
    /\ dl_pc' = "raised"
    /\ UNCHANGED <<yr, intv_i, dataset, merged, data, st_pos, tries, files>>
    /\ UNCHANGED others

\* lines 113-122: the next station of the list; getDataForStation is called
getDataForInterval_station ==
    /\ dl_pc = "station_loop"
    /\ st_pos <= Len(station_list)
    /\ tries' = 0
    /\ requests' = 0
    /\ ret' = NoReturn
    /\ dl_pc' = "data_rq"
    /\ UNCHANGED <<yr, intv_i, dataset, merged, data, station_list, st_pos,
                   last_rq, files, failed, exc>>
    /\ UNCHANGED others

\* lines 125, 138: the list is exhausted; getDataForInterval returns data,
\* which downloadDataToFile merges into the year's dataset
getDataForInterval_returns ==
    /\ dl_pc = "station_loop"
    /\ st_pos > Len(station_list)
    /\ dataset' = Merge(dataset, data)
    /\ merged' = Append(merged, Dates(yr)[intv_i + 1])
    /\ intv_i' = intv_i + 1
    /\ dl_pc' = "interval_loop"
    /\ UNCHANGED <<yr, data, station_list, st_pos, tries, requests, ret,
                   last_rq, files, failed, exc>>
    /\ UNCHANGED others

DataRequest ==
    [kind |-> "data", yr |-> yr, intv |-> intv_i, pos |-> st_pos,
     station |-> station_list[st_pos], start |-> Dates(yr)[intv_i + 1],
     hours |-> Hours(yr, intv_i), minutes |-> Minutes(yr, intv_i)]

\* lines 62-71, 122-123: requests.get raises.  tries is incremented; when
\* the loop is left with tries == MAX_TRIES the function returns None, which
\* getDataForInterval stores under the station's identifier
getDataForStation_fails ==
    /\ dl_pc = "data_rq"
    /\ MayTry(tries)
    /\ last_rq' = DataRequest
    /\ requests' = requests + 1
    /\ tries' = tries + 1
    /\ failed' = TRUE
    /\ IF MayTry(tries + 1)
       THEN UNCHANGED <<ret, data, st_pos, dl_pc>>
       ELSE /\ ret' = [fn |-> "getDataForStation", val |-> "None",
                       tries |-> tries + 1, requests |-> requests + 1,
                       response |-> "none", station |-> station_list[st_pos]]
            /\ data' = SetItem(data, station_list[st_pos], "None")
            /\ st_pos' = st_pos + 1
            /\ dl_pc' = "station_loop"
    /\ UNCHANGED <<yr, intv_i, dataset, merged, station_list, files, exc>>
    /\ UNCHANGED others

\* lines 64-65, 72-76, 122-123: the request succeeds and its body parses to
\* a table, which getDataForInterval stores under the station's identifier
getDataForStation_returns ==
    /\ dl_pc = "data_rq"
    /\ MayTry(tries)
    /\ last_rq' = DataRequest
    /\ requests' = requests + 1
    /\ ret' = [fn |-> "getDataForStation", val |-> "table", tries |-> tries,
               requests |-> requests + 1, response |-> "ok",
               station |-> station_list[st_pos]]
    /\ data' = SetItem(data, station_list[st_pos], "table")
    /\ st_pos' = st_pos + 1
    /\ dl_pc' = "station_loop"
    /\ UNCHANGED <<yr, intv_i, dataset, merged, station_list, tries, files,
                   failed, exc>>
    /\ UNCHANGED others

\* lines 64-65, 72-76: the request succeeds but its body is no table with a
\* Date_UTC and an IAGA column; the parse raises and nothing catches it
getDataForStation_malformed ==
    /\ dl_pc = "data_rq"
    /\ MayTry(tries)
    /\ last_rq' = DataRequest
    /\ requests' = requests + 1
    /\ ret' = [fn |-> "getDataForStation", val |-> "raise", tries |-> tries,
               requests |-> requests + 1, response |-> "malformed",
               station |-> station_list[st_pos]]
    /\ failed' = TRUE
    /\ exc' = "ParseError"
    /\ dl_pc' = "raised"
    /\ UNCHANGED <<yr, intv_i, dataset, merged, data, station_list, st_pos,
                   tries, files>>
    /\ UNCHANGED others

DownloadIdle ==
    /\ yr = START_YEAR /\ intv_i = 0 /\ dataset = EmptyDataset /\ merged = <<>>
    /\ data = EmptyDataset /\ station_list = "unset" /\ st_pos = 0
    /\ tries = 0 /\ requests = 0 /\ ret = NoReturn /\ last_rq = NoRequest
    /\ files = <<>> /\ failed = FALSE /\ exc = "none" /\ dl_pc = "idle"

-----------------------------------------------------------------------------
(* The specifications: one per part of the program                         *)

SplitInit == SplitStart /\ FmtIdle /\ DateIdle /\ EncIdle /\ DownloadIdle
SplitNext == split_data
SpecSplit == SplitInit /\ [][SplitNext]_vars

FmtInit == FmtStart /\ SplitIdle /\ DateIdle /\ EncIdle /\ DownloadIdle
FmtNext == call_rnn_format_x \/ call_linear_format_x
SpecFormat == FmtInit /\ [][FmtNext]_vars

DateInit == DateStart /\ SplitIdle /\ FmtIdle /\ EncIdle /\ DownloadIdle
DateNext == date_range_yield \/ date_range_yield_end
SpecDate == DateInit /\ [][DateNext]_vars

EncInit == EncStart /\ SplitIdle /\ FmtIdle /\ DateIdle /\ DownloadIdle
EncNext == call_rnn_format_y
SpecEncode == EncInit /\ [][EncNext]_vars

DownloadInit == DownloadStart /\ SplitIdle /\ FmtIdle /\ DateIdle /\ EncIdle
DownloadNext ==
    \/ downloadData_year
    \/ downloadData_return
    \/ downloadDataToFile_interval
    \/ downloadDataToFile_save
    \/ getAvailableStations_fails
    \/ getAvailableStations_returns
    \/ getAvailableStations_undecodable
    \/ getDataForInterval_station
    \/ getDataForInterval_returns
    \/ getDataForStation_fails
    \/ getDataForStation_returns
    \/ getDataForStation_malformed
SpecDownload == DownloadInit /\ [][DownloadNext]_vars

-----------------------------------------------------------------------------
(* Claims about split_data                                                 *)

\* how often x occurs in sequence s
Occurrences(s, x) == Cardinality({j \in DOMAIN s : s[j] = x})

\* C1: without batch_size, split_data returns two lists with one array per
\* input array; for each array the two lengths sum to n, and every input row
\* index lands in exactly one of the two groups, in the same group and at the
\* same position for every array of the list.
C1_SplitPartitionsRows ==
    (split_pc = "returned" /\ batch_size = 0) =>
        LET n == NRows(list_of_data)
            m == Len(list_of_data)
        IN  /\ Len(split_a) = m /\ Len(split_b) = m
            /\ \A a \in 1..m : Len(split_a[a]) + Len(split_b[a]) = n
            /\ \A r \in 0..(n - 1) :
                 /\ \A a \in 1..m :
                      Occurrences(split_a[a], <<a, r>>)
                        + Occurrences(split_b[a], <<a, r>>) = 1
                 /\ \/ \E j \in 1..Len(split_a[1]) :
                          \A a \in 1..m : split_a[a][j] = <<a, r>>
                    \/ \E j \in 1..Len(split_b[1]) :
                          \A a \in 1..m : split_b[a][j] = <<a, r>>

\* a shuffled split of several arrays with rows in both groups
C1_Witness ==
    /\ split_pc = "returned" /\ batch_size = 0 /\ random
    /\ Len(list_of_data) >= 2
    /\ idx # arange(NRows(list_of_data))
    /\ Len(split_a[1]) >= 1 /\ Len(split_b[1]) >= 2

\* C2: with batch_size b > 0 each returned group is the leading part of its
\* pre-trim group, as long as the largest multiple of b that fits; a group
\* whose length is already a multiple of b is returned unchanged.
C2_TrimKeepsWholeBatches ==
    (split_pc = "returned" /\ batch_size > 0) =>
        \A a \in 1..Len(list_of_data) :
            /\ split_a[a] = SubSeq(pre_a[a], 1,
                   (Len(pre_a[a]) \div batch_size) * batch_size)
            /\ split_b[a] = SubSeq(pre_b[a], 1,
                   (Len(pre_b[a]) \div batch_size) * batch_size)

-----------------------------------------------------------------------------
(* Claims about rnn_format_x and linear_format_x                           *)

\* C5: rnn_format_x maps an array of shape (a0, a1, a2, a3) to one of shape
\* (a0, a1, a2*a3) with output[s, t, c*a3 + d] = input[s, t, c, d].
C5_RnnCollapsesLastTwoAxes ==
    fmt_pc = "rnn" =>
        \A i \in 1..Len(list_of_x) :
            LET sh == list_of_x[i].shape
            IN  /\ x_out[i].shape = <<sh[1], sh[2], sh[3] * sh[4]>>
                /\ \A ix \in Indices(sh) :
                     x_out[i].at[<<ix[1], ix[2], ix[3] * sh[4] + ix[4]>>]
                       = list_of_x[i].at[ix]

\* C6: reshaping the output of rnn_format_x or linear_format_x back to
\* (a0, a1, a2, a3) yields the input array; the number of samples a0 and the
\* number of elements per sample a1*a2*a3 are unchanged.
C6_ReshapeRoundTrip ==
    fmt_pc \in {"rnn", "linear"} =>
        \A i \in 1..Len(list_of_x) :
            LET sh == list_of_x[i].shape
            IN  /\ Reshape(x_out[i], sh) = list_of_x[i]
                /\ x_out[i].shape[1] = sh[1]
                /\ Prod(x_out[i].shape, 2) = sh[2] * sh[3] * sh[4]

\* rnn_format_x has run on an array whose time and group axes all exceed 1
C6_Witness ==
    /\ fmt_pc = "rnn"
    /\ \E i \in 1..Len(list_of_x) :
         /\ \A d \in 1..4 : list_of_x[i].shape[d] >= 2
         /\ list_of_x[i].shape[2] # list_of_x[i].shape[3]

-----------------------------------------------------------------------------
(* Claims about date_range                                                 *)

NonDecreasing(s) == \A j \in 1..(Len(s) - 1) : s[j] <= s[j + 1]

\* C7 as stated: date_range(start, end, n) yields n+1 timestamps in
\* non-decreasing order, the i-th being start + i*(end-start)/n and the last
\* being end.
C7_EvenlySpacedExactly ==
    dr_pc = "done" =>
        /\ Len(dr_yielded) = dr_intv + 1
        /\ \A i \in 0..(dr_intv - 1) :
             dr_intv * (dr_yielded[i + 1] - dr_start) = i * (dr_end - dr_start)
        /\ dr_yielded[dr_intv + 1] = dr_end
        /\ NonDecreasing(dr_yielded)

\* C7 amended: n+1 timestamps, the last exactly end, the i-th start + i*diff
\* with diff the span over n rounded to a whole tick (ties to even); when the
\* span is a whole multiple of n ticks, the i-th is exactly
\* start + i*(end-start)/n and the order is non-decreasing.
C7_EvenlySpacedWhenDivisible ==
    dr_pc = "done" =>
        LET span == dr_end - dr_start
        IN  /\ Len(dr_yielded) = dr_intv + 1
            /\ dr_yielded[dr_intv + 1] = dr_end
            /\ \A i \in 0..(dr_intv - 1) :
                 /\ 2 * dr_intv * (dr_yielded[i + 1] - dr_start) <= i * (2 * span + dr_intv)
                 /\ 2 * dr_intv * (dr_yielded[i + 1] - dr_start) >= i * (2 * span - dr_intv)
            /\ \A i \in 0..(dr_intv - 2) :
                 dr_yielded[i + 2] - dr_yielded[i + 1] = dr_yielded[2] - dr_yielded[1]
            /\ (span % dr_intv = 0) =>
                 /\ \A i \in 0..(dr_intv - 1) :
                      dr_intv * (dr_yielded[i + 1] - dr_start) = i * span
                 /\ NonDecreasing(dr_yielded)

\* a span of several ticks per interval, divided without remainder
C7_Witness ==
    /\ dr_pc = "done" /\ dr_intv >= 3
    /\ dr_end - dr_start >= 2 * dr_intv
    /\ (dr_end - dr_start) % dr_intv = 0

-----------------------------------------------------------------------------
(* Claims about rnn_format_y                                               *)

\* the columns of a one-hot row that are active
ActiveColumns(row) == {c \in DOMAIN row : row[c] = 1}

\* C9: over a list of label arrays, every output row has exactly one active
\* column, all outputs have the same width, and a category activates the same
\* column in every output, also when an element lacks some category.
C9_SharedColumnMapping ==
    y_pc = "returned" =>
        /\ \A i \in 1..Len(y_rnn) : \A j \in DOMAIN y_rnn[i] :
             Cardinality(ActiveColumns(y_rnn[i][j])) = 1
        /\ \A i, k \in 1..Len(y_rnn) :
             \A j \in DOMAIN y_rnn[i], l \in DOMAIN y_rnn[k] :
                /\ Len(y_rnn[i][j]) = Len(y_rnn[k][l])
                /\ list_of_y[i][j] = list_of_y[k][l] =>
                     ActiveColumns(y_rnn[i][j]) = ActiveColumns(y_rnn[k][l])

-----------------------------------------------------------------------------
(* Claims about the download                                               *)

\* C3: a remote call makes at most MAX_TRIES requests; after k <= 4 failures
\* and a success it returns the result, having made k+1 requests; after 5
\* failures it returns a failure value (None) and raises nothing.
C3_RetryThenResultOrFailureValue ==
    /\ requests <= MAX_TRIES
    /\ ret.fn # "none" =>
         /\ (ret.tries < MAX_TRIES /\ ret.response = "ok") =>
               /\ ret.val \in {"list", "table"}
               /\ ret.requests = ret.tries + 1
         /\ ret.tries = MAX_TRIES =>
               /\ ret.requests = MAX_TRIES
               /\ ret.val = "None"
               /\ exc = "none"

\* C4: when the station-list query ends without a list (retries exhausted,
\* or an undecodable response), no exception is raised, no station is
\* fetched and the interval's dataset stays empty.
C4_NoStationListMeansEmptyInterval ==
    (ret.fn = "getAvailableStations" /\ ret.val # "list") =>
        /\ exc = "none"
        /\ dl_pc # "raised"
        /\ last_rq.kind = "stations"
        /\ data = EmptyDataset

\* C8: when getDataForStation gives up on a station, the run goes on and the
\* interval's dataset holds nothing under that station's identifier.
C8_FailedStationLeavesGap ==
    (ret.fn = "getDataForStation" /\ ret.val = "None") =>
        /\ exc = "none"
        /\ dl_pc # "raised"
        /\ ret.station \notin DOMAIN data

\* the start dates of the first k intervals of year y
IntervalStarts(y, k) == [j \in 1..k |-> Dates(y)[j]]

C10_State ==
    ~failed =>
        /\ yr \in START_YEAR..END_YEAR
        /\ files = [k \in 1..(yr - START_YEAR) |-> FileName(START_YEAR + k - 1)]
        /\ dl_pc = "done" => yr = END_YEAR
        /\ dl_pc \in {"stations_rq", "station_loop", "data_rq"} =>
              merged = IntervalStarts(yr, intv_i)

C10_Step ==
    ~failed' =>
        /\ yr' \in {yr, yr + 1}
        \* the year's file is written once all its intervals are merged
        /\ files' # files =>
              /\ files' = Append(files, FileName(yr))
              /\ merged = IntervalStarts(yr, N_INTERVALS)
              /\ yr' = yr + 1
        \* an interval is merged once every station of its list is fetched
        /\ (merged' # merged /\ merged' # <<>>) =>
              /\ merged' = IntervalStarts(yr, Len(merged) + 1)
              /\ last_rq.yr = yr /\ last_rq.intv = Len(merged)
              /\ last_rq.pos = Len(station_list)
              /\ DOMAIN data = {station_list[j] : j \in 1..Len(station_list)}
        \* a request belongs to the running year and interval, whose
        \* predecessors are merged and saved; stations follow the list
        /\ last_rq' # last_rq =>
              /\ last_rq'.yr = yr
              /\ Len(files) = yr - START_YEAR
              /\ last_rq'.intv = Len(merged)
              /\ last_rq'.start = Dates(yr)[last_rq'.intv + 1]
              /\ last_rq'.kind = "stations" =>
                    (last_rq.kind # "none" => last_rq'.start > last_rq.start)
              /\ last_rq'.kind = "data" =>
                    /\ last_rq.yr = yr /\ last_rq.intv = last_rq'.intv
                    /\ last_rq'.pos = last_rq.pos + 1
                    /\ last_rq'.station = station_list[last_rq'.pos]

\* C10: in a run without a failed remote call the years are processed in
\* ascending order from START_YEAR to END_YEAR - 1; the intervals of a year
\* are assembled one after another in chronological order, their stations
\* fetched in list order; exactly one file mag_data_<year> is written, after
\* all N_INTERVALS intervals are merged and before the next year's requests.
C10_SerialYearlyDownload == [](C10_State) /\ [][C10_Step]_vars

\* the whole run has ended without a failure, the last fetch being that of
\* the second station of a list
C10_Witness ==
    /\ dl_pc = "done" /\ ~failed
    /\ Len(files) = END_YEAR - START_YEAR
    /\ last_rq.kind = "data" /\ last_rq.pos = 2


=============================================================================
